---- MODULE Spec2Model ----
(***************************************************************************)
(* Can-Eat-Not: the LangGraph workflow of src/main.py, its nodes           *)
(* (src/nodes.py) and the three agents (src/agents).                       *)
(*                                                                         *)
(* Python strings are sequences of one-character strings, so that lower(), *)
(* strip() and the substring test `x in y` are computed, not assumed.      *)
(* Python dicts are functions whose domain is the set of keys present.     *)
(* The answers of the language model and the lines typed by the user are   *)
(* the inputs of the workflow: each step draws them from small sets.       *)
(* Message timestamps (datetime.now()) are not modelled.                   *)
(*                                                                         *)
(* src/tools/food_db.py is a module of its own: the workflow never makes a *)
(* FoodDB.  LookupSpec follows calls of FoodDB.calories_for on catalogues  *)
(* and queries drawn from small sets.                                      *)
(***************************************************************************)
EXTENDS Integers, Sequences, FiniteSets, TLC

VARIABLES
    state,      \* the State dict threaded through the graph (src/state.py)
    node,       \* the node the executor runs next; "END" after completion,
                \* "error" when a router names a node its edge map lacks
    unrecorded, \* parity of the number of messages appended to the history
                \* beyond the MaxHistory the model records
    summary,    \* the final summary main() prints after graph.invoke
    data,       \* FoodDB: the list data["food_response"] of the catalogue
    text,       \* FoodDB: the argument of the last call of calories_for
    returned    \* FoodDB: what that call returned, or that it raised

vars == <<state, node, unrecorded, summary, data, text, returned>>

(***************************************************************************)
(* Bounds of the model.                                                    *)
(***************************************************************************)
\* The model records the first MaxHistory messages of the history; Spec
\* stops a session whose history holds that many.
MaxHistory == 4

(***************************************************************************)
(* Python values and built-ins.                                            *)
(***************************************************************************)
\* None, for the Optional[str] field food_request: no string equals it.
None == <<"None">>

EmptyDict == <<>>

\* dict.get(k, default)
Get(d, k, default) == IF k \in DOMAIN d THEN d[k] ELSE default

\* bool(s) of an Optional[str]
TruthyStr(s) == s # None /\ s # <<>>

\* bool(d) of a dict
TruthyDict(d) == DOMAIN d # {}

UpperLetters ==
    <<"A", "B", "C", "D", "E", "F", "G", "H", "I", "J", "K", "L", "M",
      "N", "O", "P", "Q", "R", "S", "T", "U", "V", "W", "X", "Y", "Z">>

LowerLetters ==
    <<"a", "b", "c", "d", "e", "f", "g", "h", "i", "j", "k", "l", "m",
      "n", "o", "p", "q", "r", "s", "t", "u", "v", "w", "x", "y", "z">>

\* the lower-case letter of each upper-case letter
LowerOf ==
    [c \in {UpperLetters[i] : i \in 1..26} |->
        LowerLetters[CHOOSE i \in 1..26 : UpperLetters[i] = c]]

LowerChar(c) == IF c \in DOMAIN LowerOf THEN LowerOf[c] ELSE c

\* str.lower()
Lower(s) == [i \in 1..Len(s) |-> LowerChar(s[i])]

IsSpace(c) == c \in {" ", "\t", "\n"}

RECURSIVE LStrip(_)
LStrip(s) == IF s # <<>> /\ IsSpace(Head(s)) THEN LStrip(Tail(s)) ELSE s

RECURSIVE RStrip(_)
RStrip(s) ==
    IF s # <<>> /\ IsSpace(s[Len(s)])
    THEN RStrip(SubSeq(s, 1, Len(s) - 1))
    ELSE s

\* str.strip()
Strip(s) == RStrip(LStrip(s))

\* the substring test `sub in s`
Contains(sub, s) ==
    \E i \in 0..(Len(s) - Len(sub)) : SubSeq(s, i + 1, i + Len(sub)) = sub

\* membership in a list or set literal
IsIn(x, list) == \E i \in DOMAIN list : list[i] = x

Digits == <<"0", "1", "2", "3", "4", "5", "6", "7", "8", "9">>

IsDigit(c) == \E i \in 1..10 : Digits[i] = c

DigitVal(c) == (CHOOSE i \in 1..10 : Digits[i] = c) - 1

RECURSIVE DigitsVal(_)
DigitsVal(s) ==
    IF s = <<>> THEN 0
    ELSE 10 * DigitsVal(SubSeq(s, 1, Len(s) - 1)) + DigitVal(s[Len(s)])

RECURSIVE NatStr(_)
NatStr(n) ==
    IF n < 10 THEN <<Digits[n + 1]>>
    ELSE NatStr(n \div 10) \o <<Digits[(n % 10) + 1]>>

(***************************************************************************)
(* JSON values as json.loads returns them.  Every value has the same       *)
(* record shape; kind tells which field holds it.                          *)
(***************************************************************************)
JInt(n) == [kind |-> "int", n |-> n, s |-> <<>>, b |-> FALSE]
JFloat(n) == [kind |-> "float", n |-> n, s |-> <<>>, b |-> FALSE]
JStr(s) == [kind |-> "str", n |-> 0, s |-> s, b |-> FALSE]
JBool(b) == [kind |-> "bool", n |-> 0, s |-> <<>>, b |-> b]

\* A numeric literal int() and float() accept: digits, blanks around them.
IsNumeral(s) ==
    /\ Strip(s) # <<>>
    /\ \A i \in 1..Len(Strip(s)) : IsDigit(Strip(s)[i])

\* int(v) and float(v) on the values of the model (all of them integral):
\* whether the call returns, and what.  A bool is the number 1 or 0.
NumOk(v) == v.kind \in {"int", "float", "bool"} \/ (v.kind = "str" /\ IsNumeral(v.s))

NumVal(v) ==
    CASE v.kind \in {"int", "float"} -> v.n
      [] v.kind = "bool" -> IF v.b THEN 1 ELSE 0
      [] OTHER -> DigitsVal(Strip(v.s))

\* str(v)
PyStr(v) ==
    CASE v.kind = "str" -> v.s
      [] v.kind = "bool" -> IF v.b THEN <<"T", "r", "u", "e">> ELSE <<"F", "a", "l", "s", "e">>
      [] v.kind = "int" -> NatStr(v.n)
      [] OTHER -> NatStr(v.n) \o <<".", "0">>

(***************************************************************************)
(* src/state.py                                                            *)
(***************************************************************************)
Message(role, content) == [role |-> role, content |-> content]

\* The update a node returns is written over the state key by key: no
\* channel of State declares a reducer.
Merge(s, updates) ==
    [k \in DOMAIN s |-> IF k \in DOMAIN updates THEN updates[k] ELSE s[k]]

initial_state ==
    [ messages |-> <<>>,
      current_user_input |-> <<>>,
      awaiting_user_input |-> FALSE,
      user_profile |-> EmptyDict,
      profile_complete |-> FALSE,
      nutrition_profile |-> EmptyDict,
      food_analysis |-> EmptyDict,
      current_phase |-> "greeting",
      next_agent |-> "trainer",
      food_request |-> None,
      food_request_pending |-> FALSE,
      awaiting_food_request |-> FALSE,
      final_recommendation |-> <<>>,
      can_eat_verdict |-> FALSE,
      session_complete |-> FALSE ]

(***************************************************************************)
(* src/nodes.py: human_node                                                *)
(***************************************************************************)
termination_tokens ==
    << <<"e", "x", "i", "t">>, <<"q", "u", "i", "t">>, <<":", "q">>, <<"b", "y", "e">> >>

consumption_phrases ==
    << <<"i", " ", "w", "a", "n", "t", " ", "t", "o", " ", "e", "a", "t">>, <<"c", "a", "n", " ", "i", " ", "e", "a", "t">>, <<"i", "'", "m", " ", "e", "a", "t", "i", "n", "g">>, <<"e", "a", "t", "i", "n", "g">>,
       <<"i", "'", "l", "l", " ", "e", "a", "t">>, <<"l", "e", "t", " ", "m", "e", " ", "e", "a", "t">>, <<"s", "h", "o", "u", "l", "d", " ", "i", " ", "e", "a", "t">>, <<"i", "s", " ", "i", "t", " ", "o", "k", " ", "t", "o", " ", "e", "a", "t">>,
       <<"c", "a", "n", " ", "e", "a", "t">>, <<"w", "a", "n", "t", " ", "t", "o", " ", "e", "a", "t">> >>

specific_foods ==
    << <<"a", "p", "p", "l", "e">>, <<"b", "a", "n", "a", "n", "a">>, <<"t", "o", "a", "s", "t">>, <<"c", "a", "p", "p", "u", "c", "c", "i", "n", "o">>, <<"c", "h", "e", "e", "s", "e">>,
       <<"h", "a", "m">>, <<"k", "f", "c">>, <<"p", "i", "z", "z", "a">>, <<"b", "u", "r", "g", "e", "r">>, <<"c", "h", "i", "c", "k", "e", "n">> >>

numerals ==
    << <<"1">>, <<"2">>, <<"3">>, <<"4">>, <<"5">>, <<"o", "n", "e">>, <<"t", "w", "o">>, <<"t", "h", "r", "e", "e">> >>

has_consumption_intent(user_lower) ==
    \E i \in DOMAIN consumption_phrases : Contains(consumption_phrases[i], user_lower)

has_specific_food(user_lower) ==
    \E i \in DOMAIN specific_foods : Contains(specific_foods[i], user_lower)

\* f"{num} {food}" in user_lower, for some num and food
has_quantity_food(user_lower) ==
    \E i \in DOMAIN numerals, j \in DOMAIN specific_foods :
        Contains(numerals[i] \o <<" ">> \o specific_foods[j], user_lower)

\* Mutant of is_food_request: a numeral next to a food term does not count.
is_food_request_phrase_only(user_lower) ==
    has_consumption_intent(user_lower) /\ has_specific_food(user_lower)

is_food_request(user_lower) ==
    \/ has_consumption_intent(user_lower) /\ has_specific_food(user_lower)
    \/ has_quantity_food(user_lower)

\* Mutant of human_node: the history is rebuilt from the new message alone.
human_node_fresh_history(s, line) ==
    LET user_input == Strip(line)
        user_lower == Lower(user_input)
    IN  IF IsIn(user_lower, termination_tokens)
        THEN [ current_user_input |-> user_input,
               session_complete |-> TRUE,
               awaiting_user_input |-> FALSE ]
        ELSE [ messages |-> <<Message("user", user_input)>>,
               current_user_input |-> user_input,
               awaiting_user_input |-> FALSE,
               food_request |->
                   IF is_food_request(user_lower) /\ ~TruthyStr(s.food_request)
                   THEN user_input ELSE s.food_request,
               food_request_pending |->
                   is_food_request(user_lower) /\ s.profile_complete ]

\* Mutant of human_node: an input that is no food request clears food_request.
human_node_clears_request(s, line) ==
    LET user_input == Strip(line)
        user_lower == Lower(user_input)
    IN  IF IsIn(user_lower, termination_tokens)
        THEN [ current_user_input |-> user_input,
               session_complete |-> TRUE,
               awaiting_user_input |-> FALSE ]
        ELSE [ messages |-> Append(s.messages, Message("user", user_input)),
               current_user_input |-> user_input,
               awaiting_user_input |-> FALSE,
               food_request |->
                   IF is_food_request(user_lower) /\ ~TruthyStr(s.food_request)
                   THEN user_input
                   ELSE IF is_food_request(user_lower) THEN s.food_request ELSE None,
               food_request_pending |->
                   is_food_request(user_lower) /\ s.profile_complete ]

\* Mutant of human_node: the termination tokens are matched without lower().
human_node_case_sensitive(s, line) ==
    LET user_input == Strip(line)
        user_lower == Lower(user_input)
    IN  IF IsIn(user_input, termination_tokens)
        THEN [ current_user_input |-> user_input,
               session_complete |-> TRUE,
               awaiting_user_input |-> FALSE ]
        ELSE [ messages |-> Append(s.messages, Message("user", user_input)),
               current_user_input |-> user_input,
               awaiting_user_input |-> FALSE,
               food_request |->
                   IF is_food_request(user_lower) /\ ~TruthyStr(s.food_request)
                   THEN user_input ELSE s.food_request,
               food_request_pending |->
                   is_food_request(user_lower) /\ s.profile_complete ]

\* Mutant of human_node: a termination token is appended to the history.
human_node_records_exit(s, line) ==
    LET user_input == Strip(line)
        user_lower == Lower(user_input)
    IN  IF IsIn(user_lower, termination_tokens)
        THEN [ messages |-> Append(s.messages, Message("user", user_input)),
               current_user_input |-> user_input,
               session_complete |-> TRUE,
               awaiting_user_input |-> FALSE ]
        ELSE [ messages |-> Append(s.messages, Message("user", user_input)),
               current_user_input |-> user_input,
               awaiting_user_input |-> FALSE,
               food_request |->
                   IF is_food_request(user_lower) /\ ~TruthyStr(s.food_request)
                   THEN user_input ELSE s.food_request,
               food_request_pending |->
                   is_food_request(user_lower) /\ s.profile_complete ]

\* Mutant of human_node: the update leaves awaiting_user_input out.
human_node_keeps_awaiting(s, line) ==
    LET user_input == Strip(line)
        user_lower == Lower(user_input)
    IN  IF IsIn(user_lower, termination_tokens)
        THEN [ current_user_input |-> user_input,
               session_complete |-> TRUE,
               awaiting_user_input |-> FALSE ]
        ELSE [ messages |-> Append(s.messages, Message("user", user_input)),
               current_user_input |-> user_input,
               food_request |->
                   IF is_food_request(user_lower) /\ ~TruthyStr(s.food_request)
                   THEN user_input ELSE s.food_request,
               food_request_pending |->
                   is_food_request(user_lower) /\ s.profile_complete ]

\* Mutant of human_node: a food request replaces the one already recorded.
human_node_overwrites_request(s, line) ==
    LET user_input == Strip(line)
        user_lower == Lower(user_input)
    IN  IF IsIn(user_lower, termination_tokens)
        THEN [ current_user_input |-> user_input,
               session_complete |-> TRUE,
               awaiting_user_input |-> FALSE ]
        ELSE [ messages |-> Append(s.messages, Message("user", user_input)),
               current_user_input |-> user_input,
               awaiting_user_input |-> FALSE,
               food_request |->
                   IF is_food_request(user_lower)
                   THEN user_input ELSE s.food_request,
               food_request_pending |->
                   is_food_request(user_lower) /\ s.profile_complete ]

\* The update human_node returns for the line read from input().
human_node(s, line) ==
    LET user_input == Strip(line)
        user_lower == Lower(user_input)
    IN  IF IsIn(user_lower, termination_tokens)
        THEN [ current_user_input |-> user_input,
               session_complete |-> TRUE,
               awaiting_user_input |-> FALSE ]
        ELSE [ messages |-> Append(s.messages, Message("user", user_input)),
               current_user_input |-> user_input,
               awaiting_user_input |-> FALSE,
               food_request |->
                   IF is_food_request(user_lower) /\ ~TruthyStr(s.food_request)
                   THEN user_input ELSE s.food_request,
               food_request_pending |->
                   is_food_request(user_lower) /\ s.profile_complete ]

check_session_status(s) == IF s.session_complete THEN "complete" ELSE "continue"

(***************************************************************************)
(* src/nodes.py: determine_next_agent                                      *)
(***************************************************************************)
meal_planning_keywords ==
    << <<"m", "e", "a", "l", " ", "p", "l", "a", "n">>, <<"d", "i", "e", "t", " ", "p", "l", "a", "n">>, <<"n", "u", "t", "r", "i", "t", "i", "o", "n", " ", "p", "l", "a", "n">>,
       <<"w", "h", "a", "t", " ", "s", "h", "o", "u", "l", "d", " ", "i", " ", "e", "a", "t">>, <<"m", "e", "a", "l", " ", "i", "d", "e", "a", "s">>, <<"d", "i", "e", "t", " ", "a", "d", "v", "i", "c", "e">> >>

is_meal_planning_request(user_input) ==
    \E i \in DOMAIN meal_planning_keywords :
        Contains(meal_planning_keywords[i], user_input)

\* Mutant of determine_next_agent: the food-request guard is tested before
\* the profile guard.
determine_next_agent_food_first(s) ==
    LET has_nutrition_profile == TruthyDict(s.nutrition_profile)
        has_food_analysis == TruthyDict(s.food_analysis)
        user_input == Lower(s.current_user_input)
    IN  IF TruthyStr(s.food_request) /\ ~has_food_analysis THEN "food_specialist"
        ELSE IF ~s.profile_complete THEN "trainer"
        ELSE IF s.profile_complete /\ ~has_nutrition_profile THEN "nutritionist"
        ELSE IF s.profile_complete /\ has_nutrition_profile
                /\ is_meal_planning_request(user_input) THEN "nutritionist"
        ELSE IF s.profile_complete /\ has_nutrition_profile
                /\ ~TruthyStr(s.food_request) /\ ~s.awaiting_food_request THEN "trainer"
        ELSE IF s.profile_complete /\ has_nutrition_profile /\ has_food_analysis
                /\ ~TruthyStr(s.final_recommendation) THEN "trainer"
        ELSE "human"

\* Mutant of determine_next_agent: the function ends without the default
\* return, so that falling through every guard returns None.
determine_next_agent_no_default(s) ==
    LET has_nutrition_profile == TruthyDict(s.nutrition_profile)
        has_food_analysis == TruthyDict(s.food_analysis)
        user_input == Lower(s.current_user_input)
    IN  IF ~s.profile_complete THEN "trainer"
        ELSE IF s.profile_complete /\ ~has_nutrition_profile THEN "nutritionist"
        ELSE IF s.profile_complete /\ has_nutrition_profile
                /\ is_meal_planning_request(user_input) THEN "nutritionist"
        ELSE IF s.profile_complete /\ has_nutrition_profile
                /\ ~TruthyStr(s.food_request) /\ ~s.awaiting_food_request THEN "trainer"
        ELSE IF TruthyStr(s.food_request) /\ ~has_food_analysis THEN "food_specialist"
        ELSE IF s.profile_complete /\ has_nutrition_profile /\ has_food_analysis
                /\ ~TruthyStr(s.final_recommendation) THEN "trainer"
        ELSE "None"

determine_next_agent(s) ==
    LET has_nutrition_profile == TruthyDict(s.nutrition_profile)
        has_food_analysis == TruthyDict(s.food_analysis)
        user_input == Lower(s.current_user_input)
    IN  IF ~s.profile_complete THEN "trainer"
        ELSE IF s.profile_complete /\ ~has_nutrition_profile THEN "nutritionist"
        ELSE IF s.profile_complete /\ has_nutrition_profile
                /\ is_meal_planning_request(user_input) THEN "nutritionist"
        ELSE IF s.profile_complete /\ has_nutrition_profile
                /\ ~TruthyStr(s.food_request) /\ ~s.awaiting_food_request THEN "trainer"
        ELSE IF TruthyStr(s.food_request) /\ ~has_food_analysis THEN "food_specialist"
        ELSE IF s.profile_complete /\ has_nutrition_profile /\ has_food_analysis
                /\ ~TruthyStr(s.final_recommendation) THEN "trainer"
        ELSE "human"


(***************************************************************************)
(* The language model.  ChatOpenAI(...).invoke followed by json.loads      *)
(* either raises (no network, no key, text that is not JSON) or returns a  *)
(* JSON object.  Nothing in the code checks which keys the object has, so  *)
(* an answer holds any of the keys the calling node reads.                 *)
(***************************************************************************)
LLMFailure == [ok |-> FALSE, json |-> EmptyDict]

LLMAnswer(json) == [ok |-> TRUE, json |-> json]

\* The user_profile objects the model lets an answer carry.
ProfileProposals ==
    << \* a numeral given as a string
       [ age |-> JStr(<<"3", "0">>) ],
       \* all six fields, each valid once normalised
       [ age |-> JInt(30), sex |-> JStr(<<"M", "a", "l", "e">>), height_cm |-> JInt(175),
         weight_kg |-> JStr(<<"7", "0">>), activity_level |-> JStr(<<"m", "o", "d", "e", "r", "a", "t", "e">>),
         first_meal |-> JStr(<<"y", "e", "s">>) ],
       \* one field out of range beside a valid one
       [ age |-> JInt(0), sex |-> JStr(<<"f", "e", "m", "a", "l", "e">>) ] >>

MsgLLM == <<"l", "l", "m", " ", "t", "e", "x", "t">>

RecLLM == <<"l", "l", "m", " ", "a", "d", "v", "i", "c", "e">>

\* The answers to a prompt of the trainer: an answer shaped after the
\* profile prompt (message, user_profile, profile_complete,
\* awaiting_user_input), or one that carries a recommendation.
TrainerAnswers ==
    { (IF m THEN "message" :> MsgLLM ELSE EmptyDict)
      @@ (IF p = 0 THEN EmptyDict
          ELSE ("user_profile" :> ProfileProposals[p]) @@ ("profile_complete" :> c))
      @@ (IF a THEN "awaiting_user_input" :> TRUE ELSE EmptyDict) :
      m \in BOOLEAN, p \in 0..Len(ProfileProposals), c \in BOOLEAN, a \in BOOLEAN }
    \cup
    { (IF m THEN "message" :> MsgLLM ELSE EmptyDict)
      @@ (IF a THEN "awaiting_user_input" :> TRUE ELSE EmptyDict)
      @@ ("final_recommendation" :> RecLLM) @@ ("can_eat_verdict" :> TRUE) :
      m \in BOOLEAN, a \in BOOLEAN }

(***************************************************************************)
(* src/agents/trainer.py                                                   *)
(***************************************************************************)
valid_levels ==
    << <<"s", "e", "d", "e", "n", "t", "a", "r", "y">>, <<"l", "i", "g", "h", "t">>, <<"m", "o", "d", "e", "r", "a", "t", "e">>, <<"a", "c", "t", "i", "v", "e">>, <<"v", "e", "r", "y", "_", "a", "c", "t", "i", "v", "e">> >>

first_meal_true == << <<"t", "r", "u", "e">>, <<"y", "e", "s">>, <<"y">>, <<"f", "i", "r", "s", "t">> >>

first_meal_false == << <<"f", "a", "l", "s", "e">>, <<"n", "o">>, <<"n">>, <<"n", "o", "t", " ", "f", "i", "r", "s", "t">> >>

clean_age(profile_data) ==
    IF "age" \in DOMAIN profile_data /\ NumOk(profile_data["age"])
       /\ 1 <= NumVal(profile_data["age"]) /\ NumVal(profile_data["age"]) <= 120
    THEN "age" :> JInt(NumVal(profile_data["age"]))
    ELSE EmptyDict

clean_sex(profile_data) ==
    IF "sex" \in DOMAIN profile_data
       /\ IsIn(Lower(PyStr(profile_data["sex"])), << <<"m", "a", "l", "e">>, <<"f", "e", "m", "a", "l", "e">> >>)
    THEN "sex" :> JStr(Lower(PyStr(profile_data["sex"])))
    ELSE EmptyDict

clean_height(profile_data) ==
    IF "height_cm" \in DOMAIN profile_data /\ NumOk(profile_data["height_cm"])
       /\ 80 <= NumVal(profile_data["height_cm"])
       /\ NumVal(profile_data["height_cm"]) <= 250
    THEN "height_cm" :> JFloat(NumVal(profile_data["height_cm"]))
    ELSE EmptyDict

clean_weight(profile_data) ==
    IF "weight_kg" \in DOMAIN profile_data /\ NumOk(profile_data["weight_kg"])
       /\ 20 <= NumVal(profile_data["weight_kg"])
       /\ NumVal(profile_data["weight_kg"]) <= 400
    THEN "weight_kg" :> JFloat(NumVal(profile_data["weight_kg"]))
    ELSE EmptyDict

clean_activity(profile_data) ==
    IF "activity_level" \in DOMAIN profile_data
       /\ IsIn(Lower(PyStr(profile_data["activity_level"])), valid_levels)
    THEN "activity_level" :> JStr(Lower(PyStr(profile_data["activity_level"])))
    ELSE EmptyDict

clean_first_meal(profile_data) ==
    IF "first_meal" \notin DOMAIN profile_data THEN EmptyDict
    ELSE IF profile_data["first_meal"].kind = "bool"
    THEN "first_meal" :> profile_data["first_meal"]
    ELSE IF IsIn(Lower(PyStr(profile_data["first_meal"])), first_meal_true)
    THEN "first_meal" :> JBool(TRUE)
    ELSE IF IsIn(Lower(PyStr(profile_data["first_meal"])), first_meal_false)
    THEN "first_meal" :> JBool(FALSE)
    ELSE EmptyDict

_validate_profile_data(profile_data) ==
    clean_age(profile_data) @@ clean_sex(profile_data)
    @@ clean_height(profile_data) @@ clean_weight(profile_data)
    @@ clean_activity(profile_data) @@ clean_first_meal(profile_data)

required_fields ==
    <<"age", "sex", "height_cm", "weight_kg", "activity_level", "first_meal">>

missing_fields(current_profile) ==
    SelectSeq(required_fields, LAMBDA f : f \notin DOMAIN current_profile)

MsgGreeting == <<"H", "i", " ", "t", "h", "e", "r", "e", "!">>

\* The question of the fallback answer, by the first missing field.
fallback_question(missing) ==
    IF missing = <<>> THEN <<"T", "e", "l", "l", " ", "m", "e", " ", "m", "o", "r", "e", "?">>
    ELSE CASE missing[1] = "sex" -> <<"M", "a", "l", "e", " ", "o", "r", " ", "f", "e", "m", "a", "l", "e", "?">>
           [] missing[1] = "height_cm" -> <<"H", "e", "i", "g", "h", "t", " ", "i", "n", " ", "c", "m", "?">>
           [] missing[1] = "weight_kg" -> <<"W", "e", "i", "g", "h", "t", " ", "i", "n", " ", "k", "g", "?">>
           [] missing[1] = "activity_level" -> <<"H", "o", "w", " ", "a", "c", "t", "i", "v", "e", " ", "a", "r", "e", " ", "y", "o", "u", "?">>
           [] missing[1] = "first_meal" -> <<"F", "i", "r", "s", "t", " ", "m", "e", "a", "l", "?">>
           [] OTHER -> <<"T", "e", "l", "l", " ", "m", "e", " ", "m", "o", "r", "e", "?">>

\* Mutant of _handle_profile_collection: the answer's profile is merged as
\* it is, without validation.
_handle_profile_collection_unvalidated(s, user_input, current_profile, llm) ==
    IF llm.ok
    THEN IF "user_profile" \in DOMAIN llm.json
         THEN [llm.json EXCEPT !["user_profile"] =
                   @ @@ current_profile]
         ELSE llm.json
    ELSE IF ~TruthyDict(current_profile)
    THEN [ message |-> MsgGreeting,
           user_profile |-> current_profile,
           profile_complete |-> FALSE,
           current_phase |-> "profile_collection",
           awaiting_user_input |-> TRUE ]
    ELSE [ message |-> fallback_question(missing_fields(current_profile)),
           user_profile |-> current_profile,
           profile_complete |-> (Len(missing_fields(current_profile)) = 0),
           current_phase |-> "profile_collection",
           awaiting_user_input |-> TRUE ]

\* Mutant of _handle_profile_collection: the fallback fills the profile in.
_handle_profile_collection_fallback_fills(s, user_input, current_profile, llm) ==
    [ message |-> MsgGreeting,
      user_profile |-> [ age |-> JInt(30) ],
      profile_complete |-> TRUE,
      current_phase |-> "profile_collection",
      awaiting_user_input |-> FALSE ]

_handle_profile_collection(s, user_input, current_profile, llm) ==
    IF llm.ok
    THEN IF "user_profile" \in DOMAIN llm.json
         THEN [llm.json EXCEPT !["user_profile"] =
                   _validate_profile_data(@) @@ current_profile]
         ELSE llm.json
    ELSE IF ~TruthyDict(current_profile)
    THEN [ message |-> MsgGreeting,
           user_profile |-> current_profile,
           profile_complete |-> FALSE,
           current_phase |-> "profile_collection",
           awaiting_user_input |-> TRUE ]
    ELSE [ message |-> fallback_question(missing_fields(current_profile)),
           user_profile |-> current_profile,
           profile_complete |-> (Len(missing_fields(current_profile)) = 0),
           current_phase |-> "profile_collection",
           awaiting_user_input |-> TRUE ]

MsgAskFood == <<"W", "h", "a", "t", " ", "f", "o", "o", "d", "?">>

_ask_for_food_request(s) ==
    [ message |-> MsgAskFood,
      awaiting_user_input |-> TRUE,
      awaiting_food_request |-> TRUE,
      current_phase |-> "food_request" ]

RecApproved == <<"A", "p", "p", "r", "o", "v", "e", "d">>

RecNotRecommended == <<"N", "o", "t", " ", "r", "e", "c", "o", "m", "m", "e", "n", "d", "e", "d">>

\* The comparison food_cals <= target_cals * 0.3 of the fallback is defined
\* between numbers only (a bool is one): on another value it raises
\* TypeError, inside the except clause, so nothing catches it.
final_recommendation_raises(s, llm) ==
    /\ ~llm.ok
    /\ Get(s.food_analysis, "total_calories", JInt(0)).kind
           \notin {"int", "float", "bool"}

_generate_final_recommendation(s, llm) ==
    IF llm.ok THEN llm.json
    ELSE LET target_cals == Get(s.nutrition_profile, "target_calories", 2000)
             food_cals == Get(s.food_analysis, "total_calories", JInt(0))
             \* food_cals <= target_cals * 0.3
             can_eat == 10 * NumVal(food_cals) <= 3 * target_cals
         IN  [ message |-> IF can_eat THEN <<"C", "a", "n", " ", "e", "a", "t", " ", "l", "a", "h", "!">>
                           ELSE <<"B", "e", "t", "t", "e", "r", " ", "r", "e", "d", "u", "c", "e">>,
               final_recommendation |->
                   IF can_eat THEN RecApproved ELSE RecNotRecommended,
               can_eat_verdict |-> can_eat ]

MsgHandOff == <<"L", "e", "t", " ", "m", "e", " ", "g", "e", "t", " ", "o", "u", "r", " ", "f", "o", "o", "d", " ", "s", "p", "e", "c", "i", "a", "l", "i", "s", "t">>

trainer(s, llm) ==
    LET has_nutrition_profile == TruthyDict(s.nutrition_profile)
        has_food_analysis == TruthyDict(s.food_analysis)
    IN  IF s.profile_complete /\ has_nutrition_profile /\ has_food_analysis
           /\ ~TruthyStr(s.final_recommendation)
        THEN _generate_final_recommendation(s, llm)
        ELSE IF TruthyStr(s.food_request) /\ ~has_food_analysis
        THEN [ message |-> MsgHandOff, awaiting_user_input |-> FALSE ]
        ELSE IF s.profile_complete /\ has_nutrition_profile
                /\ ~TruthyStr(s.food_request)
        THEN _ask_for_food_request(s)
        ELSE _handle_profile_collection(s, s.current_user_input, s.user_profile, llm)

\* Whether trainer(s, llm) raises instead of returning.
trainer_raises(s, llm) ==
    /\ s.profile_complete
    /\ TruthyDict(s.nutrition_profile)
    /\ TruthyDict(s.food_analysis)
    /\ ~TruthyStr(s.final_recommendation)
    /\ final_recommendation_raises(s, llm)

\* Whether trainer(s, .) calls the language model at all.
trainer_calls_llm(s) ==
    LET has_nutrition_profile == TruthyDict(s.nutrition_profile)
        has_food_analysis == TruthyDict(s.food_analysis)
    IN  \/ s.profile_complete /\ has_nutrition_profile /\ has_food_analysis
           /\ ~TruthyStr(s.final_recommendation)
        \/ /\ ~(TruthyStr(s.food_request) /\ ~has_food_analysis)
           /\ ~(s.profile_complete /\ has_nutrition_profile
                /\ ~TruthyStr(s.food_request))

(***************************************************************************)
(* src/agents/nutritionist.py.  Of the metrics, the model keeps bmi (in    *)
(* hundredths), bmi_class, target_calories and health_assessment: bmr,     *)
(* tdee and the macro targets are read by no node and no router.  Floats   *)
(* are exact here because every profile of the model is integral.          *)
(***************************************************************************)
\* round(num / den) for num >= 0, den > 0: ties go to the even neighbour.
RoundHalfEven(num, den) ==
    LET q == num \div den
        r == num % den
    IN  IF 2 * r < den THEN q
        ELSE IF 2 * r > den THEN q + 1
        ELSE IF q % 2 = 0 THEN q ELSE q + 1

\* bmi is given in hundredths
_get_bmi_class(bmi) ==
    IF bmi < 1850 THEN "underweight"
    ELSE IF bmi < 2500 THEN "normal"
    ELSE IF bmi < 3000 THEN "overweight"
    ELSE "obese"

\* the multiplier in thousandths
_get_activity_multiplier(level) ==
    IF level.kind # "str" THEN 1200
    ELSE CASE level.s = <<"s", "e", "d", "e", "n", "t", "a", "r", "y">> -> 1200
           [] level.s = <<"l", "i", "g", "h", "t">> -> 1375
           [] level.s = <<"m", "o", "d", "e", "r", "a", "t", "e">> -> 1550
           [] level.s = <<"a", "c", "t", "i", "v", "e">> -> 1725
           [] level.s = <<"v", "e", "r", "y", "_", "a", "c", "t", "i", "v", "e">> -> 1900
           [] OTHER -> 1200

basic_metrics_fallback ==
    [ bmi |-> 2200,
      bmi_class |-> "normal",
      target_calories |-> 1300,
      health_assessment |-> <<"U", "n", "a", "b", "l", "e", " ", "t", "o", " ", "c", "a", "l", "c", "u", "l", "a", "t", "e">> ]

_calculate_basic_metrics(profile) ==
    IF /\ {"weight_kg", "height_cm", "age", "sex", "activity_level"} \subseteq DOMAIN profile
       /\ NumOk(profile["weight_kg"]) /\ NumOk(profile["height_cm"])
       /\ NumOk(profile["age"])
    THEN LET weight == NumVal(profile["weight_kg"])
             height == NumVal(profile["height_cm"])
             age == NumVal(profile["age"])
             bmi == RoundHalfEven(weight * 1000000, height * height)
             \* four times the bmr of the Mifflin-St Jeor equation
             bmr4 == 40 * weight + 25 * height - 20 * age
                     + (IF profile["sex"] = JStr(<<"m", "a", "l", "e">>) THEN 20 ELSE -644)
             \* tdee times 4000
             tdee4000 == bmr4 * _get_activity_multiplier(profile["activity_level"])
             rounded == IF tdee4000 >= 2000000
                        THEN RoundHalfEven(tdee4000 - 2000000, 4000) ELSE 0
         IN  [ bmi |-> bmi,
               bmi_class |-> _get_bmi_class(bmi),
               target_calories |-> IF rounded > 1200 THEN rounded ELSE 1200,
               health_assessment |-> <<>> ]
    ELSE basic_metrics_fallback

MsgNutritionDefault == <<"A", "n", "a", "l", "y", "s", "i", "s", " ", "c", "o", "m", "p", "l", "e", "t", "e", ".">>

\* The answers to the prompt of the nutritionist.
NutritionistAnswers ==
    { (IF m = 0 THEN EmptyDict
       ELSE "message" :> (IF m = 1 THEN <<>> ELSE MsgLLM))
      @@ (IF h THEN "nutrition_profile" :> [health_assessment |-> MsgLLM]
          ELSE EmptyDict) :
      m \in 0..1, h \in BOOLEAN }

fallback_health_msg(bmi_status) ==
    CASE bmi_status = "underweight" -> <<"u", "n", "d", "e", "r", "w", "e", "i", "g", "h", "t">>
      [] bmi_status = "normal" -> <<"h", "e", "a", "l", "t", "h", "y", " ", "r", "a", "n", "g", "e">>
      [] bmi_status = "overweight" -> <<"o", "v", "e", "r", "w", "e", "i", "g", "h", "t">>
      [] OTHER -> <<"o", "b", "e", "s", "i", "t", "y">>

_generate_enhanced_analysis(user_profile, basic_nutrition, llm) ==
    IF llm.ok
    THEN [ message |-> Get(llm.json, "message", MsgNutritionDefault),
           nutrition_profile |->
               IF "nutrition_profile" \in DOMAIN llm.json
                  /\ "health_assessment" \in DOMAIN llm.json["nutrition_profile"]
               THEN [basic_nutrition EXCEPT !["health_assessment"] =
                         llm.json["nutrition_profile"]["health_assessment"]]
               ELSE basic_nutrition ]
    ELSE [ message |-> <<"B", "M", "I", ":", " ">>
                       \o fallback_health_msg(basic_nutrition["bmi_class"]),
           nutrition_profile |->
               [basic_nutrition EXCEPT !["health_assessment"] =
                    fallback_health_msg(basic_nutrition["bmi_class"])] ]

nutritionist(s, llm) ==
    LET basic_nutrition == _calculate_basic_metrics(s.user_profile)
        enhanced_analysis ==
            _generate_enhanced_analysis(s.user_profile, basic_nutrition, llm)
    IN  [ message |-> Get(enhanced_analysis, "message", MsgNutritionDefault),
          nutrition_profile |->
              Get(enhanced_analysis, "nutrition_profile", basic_nutrition) ]

(***************************************************************************)
(* src/agents/food_specialist.py.  Of a food analysis the model keeps      *)
(* food_item, quantity, calories_per_unit and total_calories.              *)
(***************************************************************************)
\* The answers to the prompt of the food specialist: the calories of the
\* analysis are JSON values, numbers or not.
FoodSpecialistAnswers ==
    { (IF m = 0 THEN EmptyDict
       ELSE "message" :> (IF m = 1 THEN <<>> ELSE MsgLLM))
      @@ (IF c = 0 THEN EmptyDict
          ELSE "food_analysis" :>
                   [ calories_per_unit |-> JInt(450),
                     total_calories |-> IF c = 1 THEN JInt(900)
                                        ELSE JStr(<<"9", "0", "0">>) ]) :
      m \in 0..1, c \in 0..2 }

MsgNeedFood == <<"W", "h", "a", "t", " ", "f", "o", "o", "d", "?">>

_generate_complete_food_analysis(food_request, user_profile, nutrition_profile, llm) ==
    IF llm.ok
    THEN LET food_analysis_data == Get(llm.json, "food_analysis", EmptyDict)
         IN  [ message |-> Get(llm.json, "message",
                               <<"A", "n", "a", "l", "y", "s", "i", "s", " ", "f", "o", "r", " ">> \o food_request),
               food_analysis |->
                   [ food_item |-> Get(food_analysis_data, "food_item", food_request),
                     quantity |-> Get(food_analysis_data, "quantity", food_request),
                     calories_per_unit |->
                         Get(food_analysis_data, "calories_per_unit", JInt(0)),
                     total_calories |->
                         Get(food_analysis_data, "total_calories", JInt(0)) ] ]
    ELSE [ message |-> <<"E", "s", "t", "i", "m", "a", "t", "e", " ", "f", "o", "r", " ">> \o food_request,
           food_analysis |->
               [ food_item |-> food_request,
                 quantity |-> food_request,
                 calories_per_unit |-> JInt(100),
                 total_calories |-> JInt(100) ] ]

food_specialist(s, llm) ==
    IF ~TruthyStr(s.food_request)
    THEN [ message |-> MsgNeedFood, food_analysis |-> EmptyDict ]
    ELSE _generate_complete_food_analysis(
             s.food_request, s.user_profile, s.nutrition_profile, llm)

(***************************************************************************)
(* src/nodes.py: the agent nodes.  Each returns the update of the state.   *)
(***************************************************************************)
\* Mutant of trainer_node: a recommendation does not complete the session.
trainer_node_no_complete(s, llm) ==
    LET result == trainer(s, llm)
        messages ==
            IF TruthyStr(Get(result, "message", None))
            THEN Append(s.messages, Message("trainer", result["message"]))
            ELSE s.messages
    IN  [ messages |-> messages,
          awaiting_user_input |-> Get(result, "awaiting_user_input", FALSE) ]
        @@ (IF TruthyDict(Get(result, "user_profile", EmptyDict))
            THEN [ user_profile |-> result["user_profile"],
                   profile_complete |-> Get(result, "profile_complete", FALSE) ]
            ELSE EmptyDict)
        @@ (IF Get(result, "current_phase", "") # ""
            THEN "current_phase" :> result["current_phase"]
            ELSE EmptyDict)
        @@ (IF TruthyStr(Get(result, "final_recommendation", None))
            THEN [ final_recommendation |-> result["final_recommendation"],
                   can_eat_verdict |-> Get(result, "can_eat_verdict", FALSE) ]
            ELSE EmptyDict)

\* Mutant of trainer_node: awaiting_food_request of the result is merged.
trainer_node_merges_awaiting_food(s, llm) ==
    LET result == trainer(s, llm)
        messages ==
            IF TruthyStr(Get(result, "message", None))
            THEN Append(s.messages, Message("trainer", result["message"]))
            ELSE s.messages
    IN  [ messages |-> messages,
          awaiting_user_input |-> Get(result, "awaiting_user_input", FALSE) ]
        @@ (IF TruthyDict(Get(result, "user_profile", EmptyDict))
            THEN [ user_profile |-> result["user_profile"],
                   profile_complete |-> Get(result, "profile_complete", FALSE) ]
            ELSE EmptyDict)
        @@ (IF Get(result, "current_phase", "") # ""
            THEN "current_phase" :> result["current_phase"]
            ELSE EmptyDict)
        @@ (IF TruthyStr(Get(result, "final_recommendation", None))
            THEN [ final_recommendation |-> result["final_recommendation"],
                   can_eat_verdict |-> Get(result, "can_eat_verdict", FALSE),
                   session_complete |-> TRUE ]
            ELSE EmptyDict)
        @@ (IF "awaiting_food_request" \in DOMAIN result
            THEN "awaiting_food_request" :> result["awaiting_food_request"]
            ELSE EmptyDict)

trainer_node(s, llm) ==
    LET result == trainer(s, llm)
        messages ==
            IF TruthyStr(Get(result, "message", None))
            THEN Append(s.messages, Message("trainer", result["message"]))
            ELSE s.messages
    IN  [ messages |-> messages,
          awaiting_user_input |-> Get(result, "awaiting_user_input", FALSE) ]
        @@ (IF TruthyDict(Get(result, "user_profile", EmptyDict))
            THEN [ user_profile |-> result["user_profile"],
                   profile_complete |-> Get(result, "profile_complete", FALSE) ]
            ELSE EmptyDict)
        @@ (IF Get(result, "current_phase", "") # ""
            THEN "current_phase" :> result["current_phase"]
            ELSE EmptyDict)
        @@ (IF TruthyStr(Get(result, "final_recommendation", None))
            THEN [ final_recommendation |-> result["final_recommendation"],
                   can_eat_verdict |-> Get(result, "can_eat_verdict", FALSE),
                   session_complete |-> TRUE ]
            ELSE EmptyDict)

nutritionist_node(s, llm) ==
    LET result == nutritionist(s, llm)
        messages ==
            IF TruthyStr(Get(result, "message", None))
            THEN Append(s.messages, Message("nutritionist", result["message"]))
            ELSE s.messages
    IN  [ messages |-> messages,
          nutrition_profile |-> Get(result, "nutrition_profile", s.nutrition_profile),
          current_phase |-> "nutrition_analysis",
          awaiting_user_input |-> FALSE ]

\* Mutant of food_specialist_node: the analysis is not stored.
food_specialist_node_drops_analysis(s, llm) ==
    LET result == food_specialist(s, llm)
        messages ==
            IF TruthyStr(Get(result, "message", None))
            THEN Append(s.messages, Message("food_specialist", result["message"]))
            ELSE s.messages
    IN  [ messages |-> messages,
          food_analysis |-> s.food_analysis,
          current_phase |-> "food_analysis",
          food_request_pending |-> FALSE,
          awaiting_user_input |-> FALSE ]

food_specialist_node(s, llm) ==
    LET result == food_specialist(s, llm)
        messages ==
            IF TruthyStr(Get(result, "message", None))
            THEN Append(s.messages, Message("food_specialist", result["message"]))
            ELSE s.messages
    IN  [ messages |-> messages,
          food_analysis |-> Get(result, "food_analysis", s.food_analysis),
          current_phase |-> "food_analysis",
          food_request_pending |-> FALSE,
          awaiting_user_input |-> FALSE ]

\* Mutant of completion_node: the node resets the session flags.
completion_node_resets(s) ==
    [ session_complete |-> FALSE, awaiting_user_input |-> FALSE ]

completion_node(s) ==
    [ session_complete |-> TRUE, awaiting_user_input |-> FALSE ]

(***************************************************************************)
(* src/main.py: build_graph.  A router returns a key; the edge map of the  *)
(* node gives the node to run.  A key the map lacks raises KeyError in the *)
(* executor, which ends graph.invoke: the model goes to "error".           *)
(***************************************************************************)
\* Mutant of after_trainer: the router does not test awaiting_user_input.
after_trainer_ignores_awaiting(s) ==
    IF s.session_complete THEN "completion" ELSE determine_next_agent(s)

after_trainer(s) ==
    IF s.session_complete THEN "completion"
    ELSE IF s.awaiting_user_input THEN "human"
    ELSE determine_next_agent(s)

after_nutritionist(s) == determine_next_agent(s)

after_food_specialist(s) == determine_next_agent(s)

trainer_edges ==
    [ human |-> "human", nutritionist |-> "nutritionist",
      food_specialist |-> "food_specialist", trainer |-> "trainer",
      completion |-> "completion" ]

\* Mutant of human_edges: after an input the human node runs again.
human_edges_rereads == [ complete |-> "completion", continue |-> "human" ]

human_edges == [ complete |-> "completion", continue |-> "trainer" ]

nutritionist_edges ==
    [ trainer |-> "trainer", food_specialist |-> "food_specialist",
      human |-> "human" ]

food_specialist_edges == [ trainer |-> "trainer", human |-> "human" ]

Follow(edges, key) == IF key \in DOMAIN edges THEN edges[key] ELSE "error"

\* The lines the user types.
UserInputs ==
    << <<" ", "Q", "u", "i", "t", " ">>, <<"2", " ", "a", "p", "p", "l", "e", "s">>, <<"m", "e", "a", "l", " ", "p", "l", "a", "n">>, <<"3", "0">> >>

\* Nothing printed after graph.invoke.
NoSummary == [ printed |-> FALSE, recommendation |-> <<>>, verdict |-> FALSE ]

\* Mutant of final_summary: the summary is printed whatever the final state.
final_summary_unconditional(final_state) ==
    [ printed |-> TRUE,
      recommendation |-> final_state.final_recommendation,
      verdict |-> final_state.can_eat_verdict ]

\* What main() prints of the state graph.invoke returns.
final_summary(final_state) ==
    IF TruthyStr(final_state.final_recommendation)
    THEN [ printed |-> TRUE,
           recommendation |-> final_state.final_recommendation,
           verdict |-> final_state.can_eat_verdict ]
    ELSE NoSummary

\* No call of calories_for has returned.
NotCalled == [ kind |-> "not called", calories |-> 0, name |-> <<>> ]

\* Mutant of entry_point: the graph starts at the human node.
entry_point_human == "human"

\* builder.add_edge(START, "trainer")
entry_point == "trainer"

Init ==
    /\ state = initial_state
    /\ node = entry_point
    /\ unrecorded = 0
    /\ summary = NoSummary
    /\ data = <<>>
    /\ text = <<>>
    /\ returned = NotCalled

\* The state with the part of its history that the model records.
Recorded(s) ==
    [s EXCEPT !.messages =
         IF Len(@) <= MaxHistory THEN @ ELSE SubSeq(@, 1, MaxHistory)]

\* The executor holds the merged state and goes on to the node that the
\* edge names.
Enter(merged, next) ==
    /\ state' = Recorded(merged)
    /\ unrecorded' = (unrecorded + Len(merged.messages)
                                 - Len(Recorded(merged).messages)) % 2
    /\ node' = next
    /\ summary' = summary
    /\ UNCHANGED <<data, text, returned>>

\* One run of the trainer node and of the edge after it, the model's answer
\* drawn from `answers`.  An exception of the node ends graph.invoke with
\* the state as it was: the model goes to "error".
TrainerRuns(answers) ==
    /\ node = "trainer"
    /\ \E llm \in {LLMFailure}
                  \cup (IF trainer_calls_llm(state)
                        THEN {LLMAnswer(json) : json \in answers}
                        ELSE {}) :
           IF trainer_raises(state, llm)
           THEN Enter(state, "error")
           ELSE \E merged \in {Merge(state, trainer_node(state, llm))} :
                \E next \in {Follow(trainer_edges, after_trainer(merged))} :
                    Enter(merged, next)

TrainerStep == TrainerRuns(TrainerAnswers)

\* One run of the human node and of the edge after it, the line drawn from
\* `inputs`.
HumanReads(inputs) ==
    /\ node = "human"
    /\ \E i \in DOMAIN inputs :
           \E merged \in {Merge(state, human_node(state, inputs[i]))} :
           \E next \in {Follow(human_edges, check_session_status(merged))} :
               Enter(merged, next)

HumanStep == HumanReads(UserInputs)

NutritionistRuns(answers) ==
    /\ node = "nutritionist"
    /\ \E llm \in {LLMFailure} \cup {LLMAnswer(json) : json \in answers} :
           \E merged \in {Merge(state, nutritionist_node(state, llm))} :
           \E next \in {Follow(nutritionist_edges, after_nutritionist(merged))} :
               Enter(merged, next)

NutritionistStep == NutritionistRuns(NutritionistAnswers)

FoodSpecialistRuns(answers) ==
    /\ node = "food_specialist"
    /\ \E llm \in {LLMFailure} \cup {LLMAnswer(json) : json \in answers} :
           \E merged \in {Merge(state, food_specialist_node(state, llm))} :
           \E next \in {Follow(food_specialist_edges, after_food_specialist(merged))} :
               Enter(merged, next)

FoodSpecialistStep == FoodSpecialistRuns(FoodSpecialistAnswers)

\* The completion node and its edge to END: graph.invoke returns the final
\* state and main() prints the summary of it.
CompletionStep ==
    /\ node = "completion"
    /\ \E final_state \in {Merge(state, completion_node(state))} :
           /\ state' = Recorded(final_state)
           /\ unrecorded' = unrecorded
           /\ node' = "END"
           /\ summary' = final_summary(final_state)
           /\ UNCHANGED <<data, text, returned>>

\* Spec follows a session while its history holds fewer than MaxHistory
\* messages.
Recording == Len(state.messages) < MaxHistory

Next ==
    \/ Recording /\ TrainerStep
    \/ Recording /\ HumanStep
    \/ Recording /\ NutritionistStep
    \/ Recording /\ FoodSpecialistStep
    \/ Recording /\ CompletionStep

Spec == Init /\ [][Next]_vars

\* The answers that follow the prompts: the trainer's answer to the profile
\* prompt hands the turn to the user with part of the profile or all of it,
\* its answer to the recommendation prompt carries the recommendation; the
\* nutritionist and the food specialist answer with a message and their
\* analysis.
PromptedTrainerAnswers ==
    { json \in TrainerAnswers :
        /\ "message" \in DOMAIN json
        /\ \/ /\ "final_recommendation" \in DOMAIN json
              /\ "awaiting_user_input" \notin DOMAIN json
           \/ /\ "awaiting_user_input" \in DOMAIN json
              /\ "user_profile" \in DOMAIN json
              /\ json["profile_complete"] =
                     (Len(missing_fields(_validate_profile_data(json["user_profile"]))) = 0) }

PromptedNutritionistAnswers ==
    { json \in NutritionistAnswers :
        "message" \in DOMAIN json /\ "nutrition_profile" \in DOMAIN json }

PromptedFoodSpecialistAnswers ==
    { json \in FoodSpecialistAnswers :
        /\ "message" \in DOMAIN json
        /\ "food_analysis" \in DOMAIN json
        /\ json["food_analysis"].total_calories.kind = "int" }

PromptedTrainerStep == TrainerRuns(PromptedTrainerAnswers)

PromptedNutritionistStep == NutritionistRuns(PromptedNutritionistAnswers)

PromptedFoodSpecialistStep == FoodSpecialistRuns(PromptedFoodSpecialistAnswers)

\* A step of the executor whatever the length of the history; the history
\* beyond MaxHistory messages is not recorded.
Step ==
    \/ PromptedTrainerStep
    \/ HumanStep
    \/ PromptedNutritionistStep
    \/ PromptedFoodSpecialistStep
    \/ CompletionStep

\* The executor runs the next node whenever there is one, the user answers
\* every prompt, and every answer of the model follows its prompt or fails.
LiveSpec == Init /\ [][Step]_vars /\ WF_vars(Step)

\* More lines the user types: the four termination tokens in several
\* spellings, and lines with and without a consumption phrase, a food term
\* and a numeral next to a food term.
DialogueInputs ==
    << <<" ", "E", "x", "i", "t">>, <<"Q", "U", "I", "T", " ">>, <<":", "Q">>, <<"B", "y", "e">>,
       <<"2", " ", "a", "p", "p", "l", "e", "s">>, <<"c", "a", "n", " ", "I", " ", "e", "a", "t", " ", "a", " ", "b", "a", "n", "a", "n", "a">>, <<"I", " ", "l", "o", "v", "e", " ", "a", "p", "p", "l", "e", "s">>,
       <<"e", "a", "t", "i", "n", "g", " ", "r", "i", "c", "e">>, <<"2", " ", " ", "a", "p", "p", "l", "e", "s">>, <<"7", " ", "a", "p", "p", "l", "e", "s">>, <<"t", "h", "r", "e", "e", " ", "P", "i", "z", "z", "a">> >>

DialogueHumanStep == HumanReads(DialogueInputs)

\* The sessions of Spec with the lines of DialogueInputs and with answers
\* that follow the prompts.
DialogueNext ==
    \/ Recording /\ PromptedTrainerStep
    \/ Recording /\ DialogueHumanStep
    \/ Recording /\ PromptedNutritionistStep
    \/ Recording /\ PromptedFoodSpecialistStep
    \/ Recording /\ CompletionStep

DialogueSpec == Init /\ [][DialogueNext]_vars

\* FallbackSpec: every call of the language model fails, so that only the
\* fallback paths of the agents run.  The nutritionist and the food
\* specialist have no action here: no behaviour of FallbackSpec reaches
\* them (C30), and a state with one of them as its node would have no
\* successor.
FailingTrainerStep == TrainerRuns({})

FallbackInputs == DialogueInputs \o UserInputs \o << <<"m", "a", "l", "e">>, <<"w", "h", "a", "t", " ", "s", "h", "o", "u", "l", "d", " ", "I", " ", "e", "a", "t">> >>

FallbackHumanStep == HumanReads(FallbackInputs)

FallbackNext ==
    \/ Recording /\ FailingTrainerStep
    \/ Recording /\ FallbackHumanStep
    \/ Recording /\ CompletionStep

FallbackSpec == Init /\ [][FallbackNext]_vars


(***************************************************************************)
(* src/tools/food_db.py.  An item of the catalogue is a dict; a key whose  *)
(* JSON value is null holds NoneDict where a dict is expected.  Calories   *)
(* are counted in tenths, so that one decimal of a float is exact.         *)
(***************************************************************************)
\* None, where the code expects a dict.
NoneDict == [ None |-> TRUE ]

IsNoneDict(d) == "None" \in DOMAIN d

\* JSON null as a value of the calories field.
JNull == [kind |-> "null", n |-> 0, s |-> <<>>, b |-> FALSE]

\* \w of the regular expression
IsWordChar(c) ==
    \/ IsDigit(c)
    \/ c = "_"
    \/ \E i \in 1..26 : c = LowerLetters[i] \/ c = UpperLetters[i]

\* The number of digits (digit = TRUE) or of blanks (digit = FALSE) at the
\* start of s.
RECURSIVE LeadingRun(_, _)
LeadingRun(s, digit) ==
    IF s = <<>> THEN 0
    ELSE IF (IF digit THEN IsDigit(Head(s)) ELSE IsSpace(Head(s)))
    THEN 1 + LeadingRun(Tail(s), digit)
    ELSE 0

\* re.match(r"\s*(\d+)\s+([\w\s\-]+)\s*$", s) for a stripped s: whether it
\* matches.  \d+ takes every leading digit (a digit is no \s), \s+ needs a
\* blank after them, and the rest, up to the end, is made of word
\* characters, blanks and hyphens.
quantity_pattern_matches(s) ==
    LET nd == LeadingRun(s, TRUE)
        after_digits == SubSeq(s, nd + 1, Len(s))
        ns == LeadingRun(after_digits, FALSE)
        rest == SubSeq(after_digits, ns + 1, Len(after_digits))
    IN  /\ nd >= 1
        /\ ns >= 1
        /\ rest # <<>>
        /\ \A i \in 1..Len(rest) :
               IsWordChar(rest[i]) \/ IsSpace(rest[i]) \/ rest[i] = "-"

\* m.group(1) and m.group(2).strip() of a match
quantity_group(s) == SubSeq(s, 1, LeadingRun(s, TRUE))

item_group(s) == Strip(SubSeq(s, LeadingRun(s, TRUE) + 1, Len(s)))

\* Whether `item` matches in find_match, or raises AttributeError: the
\* name is tested first, then the aliases of item.get("eaten", {}).
name_matches(label, name_l) ==
    label = name_l \/ Contains(name_l, label) \/ Contains(label, name_l)

item_matches_by_name(item, name_l) ==
    name_matches(Lower(Get(item, "food_entry_name", <<>>)), name_l)

item_raises(item, name_l) ==
    ~item_matches_by_name(item, name_l) /\ IsNoneDict(Get(item, "eaten", EmptyDict))

item_matches(item, name_l) ==
    \/ item_matches_by_name(item, name_l)
    \/ LET eaten == Get(item, "eaten", EmptyDict)
       IN  \E k \in {"food_name_singular", "food_name_plural"} :
               LET v == Lower(Get(eaten, k, <<>>))
               IN  v # <<>> /\ name_matches(v, name_l)

\* FoodDB.find_match: the index of the item returned, 0 for None, -1 when
\* the loop raises before it returns.
RECURSIVE find_match_from(_, _, _)
find_match_from(items, name_l, i) ==
    IF i > Len(items) THEN 0
    ELSE IF item_raises(items[i], name_l) THEN -1
    ELSE IF item_matches(items[i], name_l) THEN i
    ELSE find_match_from(items, name_l, i + 1)

find_match(items, name) == find_match_from(items, Lower(name), 1)

\* float(v) of the calories field: "value" with the number in tenths,
\* "nan" for a string float() reads as not-a-number, "error" for TypeError
\* and ValueError.
IsDecimal(s) ==
    /\ Len(s) >= 3
    /\ s[Len(s) - 1] = "."
    /\ IsDigit(s[Len(s)])
    /\ \A i \in 1..(Len(s) - 2) : IsDigit(s[i])

float_of(v) ==
    CASE v.kind \in {"int", "float", "bool"} ->
             [ kind |-> "value", tenths |-> 10 * NumVal(v) ]
      [] v.kind = "null" -> [ kind |-> "error", tenths |-> 0 ]
      [] IsNumeral(v.s) -> [ kind |-> "value", tenths |-> 10 * NumVal(v) ]
      [] IsDecimal(Strip(v.s)) ->
             [ kind |-> "value",
               tenths |-> 10 * DigitsVal(SubSeq(Strip(v.s), 1, Len(Strip(v.s)) - 2))
                          + DigitVal(Strip(v.s)[Len(Strip(v.s))]) ]
      [] Lower(Strip(v.s)) = <<"n", "a", "n">> -> [ kind |-> "nan", tenths |-> 0 ]
      [] OTHER -> [ kind |-> "error", tenths |-> 0 ]

Returned(calories, name) == [ kind |-> "tuple", calories |-> calories, name |-> name ]

ReturnedNone == [ kind |-> "None", calories |-> 0, name |-> <<>> ]

Raised == [ kind |-> "raised", calories |-> 0, name |-> <<>> ]

\* FoodDB.calories_for(text) on the catalogue `items`.
calories_for(items, query) ==
    LET stripped == Strip(query)
        m == quantity_pattern_matches(stripped)
        qty == IF m THEN DigitsVal(quantity_group(stripped)) ELSE 1
        item_name == IF m THEN item_group(stripped) ELSE stripped
        match == find_match(items, item_name)
    IN  IF match = -1 THEN Raised
        ELSE IF match = 0 THEN ReturnedNone
        ELSE LET eaten == Get(items[match], "eaten", EmptyDict)
             IN  IF IsNoneDict(eaten) THEN Raised
                 ELSE LET tn == Get(eaten, "total_nutritional_content", EmptyDict)
                      IN  IF IsNoneDict(tn) THEN Raised
                          ELSE LET per_unit == float_of(Get(tn, "calories", JNull))
                               IN  CASE per_unit.kind = "error" -> ReturnedNone
                                     [] per_unit.kind = "nan" -> Raised
                                     [] OTHER ->
                                         Returned(
                                             RoundHalfEven(qty * per_unit.tenths, 10),
                                             Get(items[match], "food_entry_name",
                                                 item_name))

\* An item of the catalogue with a name, two aliases and its calories.
Item(name, singular, plural, calories) ==
    [ food_entry_name |-> name,
      eaten |-> [ food_name_singular |-> singular,
                  food_name_plural |-> plural,
                  total_nutritional_content |-> [ calories |-> calories ] ] ]

Banana == Item(<<"b", "a", "n", "a", "n", "a">>, <<"b", "a", "n", "a", "n", "a">>, <<"b", "a", "n", "a", "n", "a", "s">>, JInt(89))

\* The catalogues of LookupSpec: the banana of the spec's example; an
\* earlier item whose name contains "banana"; a name with "&" and decimal
\* calories; items whose calories are absent, null or no number; an item
\* whose "eaten" is null; calories that float() reads as not-a-number; an
\* item without a name; an item found by its alias only.
Catalogs ==
    { << Banana >>,
      << Item(<<"B", "a", "n", "a", "n", "a", " ", "B", "r", "e", "a", "d">>, <<>>, <<>>, JInt(200)), Banana >>,
      << Item(<<"F", "i", "s", "h", " ", "&", " ", "C", "h", "i", "p", "s">>, <<>>, <<>>, JStr(<<"4", "5", "0", ".", "5">>)),
         Item(<<"r", "i", "c", "e">>, <<"r", "i", "c", "e">>, <<>>, JStr(<<"0", ".", "5">>)) >>,
      << [ food_entry_name |-> <<"k", "i", "w", "i">>,
           eaten |-> [ food_name_singular |-> <<"k", "i", "w", "i">> ] ],
         Item(<<"r", "i", "c", "e">>, <<>>, <<>>, JStr(<<"a", "b", "c">>)),
         Item(<<"a", "p", "p", "l", "e">>, <<>>, <<>>, JNull),
         Banana >>,
      << [ food_entry_name |-> <<"a", "p", "p", "l", "e">>, eaten |-> NoneDict ], Banana >>,
      << Item(<<"b", "a", "n", "a", "n", "a">>, <<>>, <<>>, JStr(<<"n", "a", "n">>)) >>,
      << [ eaten |-> [ total_nutritional_content |-> [ calories |-> JInt(50) ] ] ],
         Banana >>,
      << Item(<<"p", "l", "a", "n", "t", "a", "i", "n">>, <<"c", "o", "o", "k", "i", "n", "g", " ", "b", "a", "n", "a", "n", "a">>, <<>>, JInt(120)), Banana >> }

\* The queries of LookupSpec.
Queries ==
    { <<"3", " ", "b", "a", "n", "a", "n", "a">>, <<"3", " ", "k", "u", "m", "q", "u", "a", "t", "s">>, <<"b", "a", "n", "a", "n", "a">>, <<" ", "2", " ", " ", "B", "A", "N", "A", "N", "A", "S", " ">>, <<"3", " ", "b", "a", "n", "a", "n", "a", "!">>,
      <<"2", " ", "f", "i", "s", "h", " ", "&", " ", "c", "h", "i", "p", "s">>, <<"f", "i", "s", "h", " ", "&", " ", "c", "h", "i", "p", "s">>, <<"1", " ", "r", "i", "c", "e">>, <<"3", " ", "r", "i", "c", "e">>, <<"5", " ", "r", "i", "c", "e">>,
      <<"k", "i", "w", "i">>, <<"2", " ", "a", "p", "p", "l", "e">>, <<"1", "2", " ", "b", "a", "n", "a", "n", "a", "-", "b", "r", "e", "a", "d">>, <<"3">>, <<"4", " ", "c", "o", "o", "k", "i", "n", "g", " ", "b", "a", "n", "a", "n", "a">> }

\* A FoodDB is made of one of the catalogues; no call yet.
LookupInit ==
    /\ state = initial_state
    /\ node = entry_point
    /\ unrecorded = 0
    /\ summary = NoSummary
    /\ data \in Catalogs
    /\ text = <<>>
    /\ returned = NotCalled

\* One call of calories_for.
CaloriesFor ==
    \E query \in Queries :
        /\ text' = query
        /\ returned' = calories_for(data, query)
        /\ UNCHANGED <<state, node, unrecorded, summary, data>>

LookupNext == CaloriesFor

LookupSpec == LookupInit /\ [][LookupNext]_vars

(***************************************************************************)
(* Properties.                                                             *)
(***************************************************************************)
AgentNodes == {"trainer", "nutritionist", "food_specialist"}

IsPrefix(a, b) == Len(a) <= Len(b) /\ SubSeq(b, 1, Len(a)) = a

LastMessage == state.messages[Len(state.messages)]

\* C1: no reachable state is unroutable: the key a router returns after a
\* stage is always in that stage's edge map, so the executor never fails
\* for lack of a next stage.
C1_NeverUnroutable == node # "error"

\* C2: no unbounded re-entry: no run consists, from some point on, only of
\* trainer, nutritionist and food_specialist steps; the executor always
\* comes back to the suspension boundary or to the end of the session.
C2_NoUnboundedReentry == []<>(node \notin AgentNodes)

\* C3: determine_next_agent is total: in every session state it returns one
\* of trainer, nutritionist, food_specialist, human.
C3_RoutingTotal ==
    determine_next_agent(state) \in {"trainer", "nutritionist", "food_specialist", "human"}

\* The routing falls through every guard to the default.
C3_Witness ==
    /\ determine_next_agent(state) = "human"
    /\ TruthyStr(state.final_recommendation)
    /\ TruthyDict(state.food_analysis)

\* The ordered guard chain as C4 states it, first match first.
C4_GuardChain(s) ==
    IF s.awaiting_user_input THEN "human"
    ELSE IF ~s.profile_complete THEN "trainer"
    ELSE IF ~TruthyDict(s.nutrition_profile) THEN "nutritionist"
    ELSE IF is_meal_planning_request(Lower(s.current_user_input)) THEN "nutritionist"
    ELSE IF ~TruthyStr(s.food_request) /\ ~s.awaiting_food_request THEN "trainer"
    ELSE IF TruthyStr(s.food_request) /\ ~TruthyDict(s.food_analysis)
    THEN "food_specialist"
    ELSE IF TruthyDict(s.food_analysis) /\ ~TruthyStr(s.final_recommendation)
    THEN "trainer"
    ELSE "human"

\* C4 as stated: the stage that runs after the trainer stage is the one the
\* ordered guard chain gives for the merged state.
C4_NextIsGuardChain ==
    [][node = "trainer" => node' = C4_GuardChain(state')]_vars

\* C4, amended: when the trainer stage returns and leaves session_complete
\* true the next stage is completion; otherwise it is the one the ordered
\* guard chain gives for the merged state.  (The edge map of the trainer has
\* every key of the router: the error exit after the trainer is the
\* exception of the node, after which no next stage is chosen.)
C4_NextIsGuardChainUnlessComplete ==
    [][(node = "trainer" /\ node' # "error") =>
          node' = IF state'.session_complete THEN "completion"
                  ELSE C4_GuardChain(state')]_vars

\* The trainer has run with a food request recorded and the profile
\* incomplete, and the trainer is the next stage again.
C4_Witness ==
    /\ node = "trainer"
    /\ TruthyStr(state.food_request)
    /\ ~state.profile_complete
    /\ state.messages # <<>>
    /\ LastMessage = Message("trainer", MsgHandOff)

\* C5: session_complete is monotonic: no step writes it back to false.
C5_SessionCompleteMonotonic ==
    [][state.session_complete => state'.session_complete]_vars

\* The completion node has run on a completed session.
C5_Witness == node = "END" /\ state.session_complete

\* C6: a non-empty final_recommendation implies session_complete, and once
\* it is set the trainer never runs again and the value never changes.
C6_RecommendationOnce ==
    /\ [](TruthyStr(state.final_recommendation) => state.session_complete)
    /\ [][TruthyStr(state.final_recommendation) =>
             /\ node # "trainer"
             /\ state'.final_recommendation = state.final_recommendation]_vars

\* A recommendation was made from a food analysis and the session went on
\* to its end.
C6_Witness ==
    /\ node = "END"
    /\ TruthyStr(state.final_recommendation)
    /\ TruthyDict(state.food_analysis)

\* C7: the history is append-only: every step keeps the messages it finds
\* as a prefix of the messages it leaves.
C7_HistoryAppendOnly == [][IsPrefix(state.messages, state'.messages)]_vars

\* The suspension boundary has appended to a history that was not empty.
C7_Witness ==
    /\ Len(state.messages) >= 2
    /\ LastMessage.role = "user"
    /\ state.messages[1].role = "trainer"

\* Every required field is in the profile with a value the validation of
\* the trainer accepts.
C8_AllFieldsValid(profile) ==
    \A i \in DOMAIN required_fields :
        /\ required_fields[i] \in DOMAIN profile
        /\ required_fields[i] \in DOMAIN _validate_profile_data(profile)

\* C8: profile_complete is true exactly when all six required fields are in
\* the stored profile and valid.
C8_ProfileCompleteIffValid ==
    state.profile_complete <=> C8_AllFieldsValid(state.user_profile)

\* C9: a food analysis is only ever present with a food request, and the
\* food_specialist stage is only entered with one.
C9_AnalysisNeedsRequest ==
    /\ TruthyDict(state.food_analysis) => TruthyStr(state.food_request)
    /\ node = "food_specialist" => TruthyStr(state.food_request)

\* The food specialist has analysed a request and the user was asked again.
C9_Witness ==
    /\ TruthyDict(state.food_analysis)
    /\ state.messages # <<>>
    /\ LastMessage.role = "user"

ReadsTermination == IsIn(Lower(state'.current_user_input), termination_tokens)

\* C11: when the human node reads a termination token, in any letter case
\* and with surrounding whitespace, it sets session_complete, clears
\* awaiting_user_input and the next node is completion, whatever the phase
\* and the profile; after completion no node runs again.
C11_TerminationEndsSession ==
    /\ [][node = "human" /\ ReadsTermination =>
             /\ state'.session_complete
             /\ ~state'.awaiting_user_input
             /\ node' = "completion"]_vars
    /\ [][node = "completion" => node' = "END"]_vars
    /\ [][node # "END"]_vars

\* A session ended by ":Q" before the profile was complete.
C11_Witness ==
    /\ node = "END"
    /\ state.current_user_input = <<":", "Q">>
    /\ ~state.profile_complete
    /\ state.session_complete

\* C12: the step of the human node that reads a termination token leaves
\* the history, food_request, food_request_pending, the profile, the
\* nutrition profile and the food analysis unchanged.
C12_TerminationFrame ==
    [][node = "human" /\ ReadsTermination =>
          /\ state'.messages = state.messages
          /\ state'.food_request = state.food_request
          /\ state'.food_request_pending = state.food_request_pending
          /\ state'.user_profile = state.user_profile
          /\ state'.profile_complete = state.profile_complete
          /\ state'.nutrition_profile = state.nutrition_profile
          /\ state'.food_analysis = state.food_analysis]_vars

\* A termination token was read after a food request had been recorded.
C12_Witness ==
    /\ node = "completion"
    /\ IsIn(Lower(state.current_user_input), termination_tokens)
    /\ TruthyStr(state.food_request)
    /\ state.messages # <<>>
    /\ LastMessage.content # state.current_user_input

\* C13: for every input that is no termination token the human node appends
\* exactly one message, of role user with the input as content, clears
\* awaiting_user_input and does not set session_complete.
C13_InputRecorded ==
    [][node = "human" /\ ~ReadsTermination =>
          /\ state'.messages =
                 Append(state.messages, Message("user", state'.current_user_input))
          /\ ~state'.awaiting_user_input
          /\ state'.session_complete = state.session_complete]_vars

\* The human node has recorded an input and handed over to the trainer.
C13_Witness ==
    /\ node = "trainer"
    /\ state.messages # <<>>
    /\ LastMessage = Message("user", state.current_user_input)
    /\ ~state.awaiting_user_input
    /\ ~state.session_complete

\* `sub` stands in `s` at position i.
C14_At(sub, s, i) ==
    /\ i + Len(sub) - 1 <= Len(s)
    /\ SubSeq(s, i, i + Len(sub) - 1) = sub

\* The classification as C14 states it, on the lower-cased input.
C14_Classified(s) ==
    \/ /\ \E p \in DOMAIN consumption_phrases, i \in 1..Len(s) :
              C14_At(consumption_phrases[p], s, i)
       /\ \E f \in DOMAIN specific_foods, i \in 1..Len(s) :
              C14_At(specific_foods[f], s, i)
    \/ \E n \in DOMAIN numerals, f \in DOMAIN specific_foods, i \in 1..Len(s) :
           /\ C14_At(numerals[n], s, i)
           /\ i + Len(numerals[n]) <= Len(s)
           /\ s[i + Len(numerals[n])] = " "
           /\ C14_At(specific_foods[f], s, i + Len(numerals[n]) + 1)

C15_Lines ==
    << <<"B", "y", "e">>, <<"t", "h", "r", "e", "e", " ", "P", "i", "z", "z", "a">>, <<"c", "a", "n", " ", "I", " ", "e", "a", "t", " ", "a", " ", "b", "a", "n", "a", "n", "a">>, <<"I", " ", "l", "o", "v", "e", " ", "a", "p", "p", "l", "e", "s">> >>

\* The lines of C15_Lines that C15 expects to be recorded as a request.
C15_Sets ==
    [i \in DOMAIN C15_Lines |->
        /\ ~IsIn(Lower(Strip(C15_Lines[i])), termination_tokens)
        /\ C14_Classified(Lower(Strip(C15_Lines[i])))]

\* C15: the human node sets food_request to the input only when the input
\* is classified as a food request and none is recorded, whatever line it
\* reads; once food_request is non-empty no step changes it.
C15_RequestSetOnce ==
    /\ [](node = "human" =>
            \A i \in DOMAIN C15_Lines :
                Get(human_node(state, C15_Lines[i]), "food_request",
                    state.food_request) =
                    IF C15_Sets[i] /\ ~TruthyStr(state.food_request)
                    THEN Strip(C15_Lines[i]) ELSE state.food_request)
    /\ [][TruthyStr(state.food_request) =>
             state'.food_request = state.food_request]_vars

\* A request was recorded and a later input, another line, has been read.
C15_Witness ==
    /\ TruthyStr(state.food_request)
    /\ state.messages # <<>>
    /\ LastMessage.role = "user"
    /\ LastMessage.content # state.food_request
    /\ node = "human"

\* The fields of the state that the routing guards read.
C16_GuardFields ==
    { "profile_complete", "nutrition_profile", "food_request", "food_analysis",
      "final_recommendation", "awaiting_user_input", "session_complete",
      "current_user_input" }

\* Two values of a field are the same value (dicts by their keys).
C16_Same(a, b) ==
    IF DOMAIN a = {} \/ DOMAIN b = {} THEN DOMAIN a = DOMAIN b ELSE a = b

\* The step from s to t advances the session.
C16_Advances(s, t) ==
    \/ Len(t.messages) > Len(s.messages)
    \/ \E k \in C16_GuardFields :
           IF k \in {"nutrition_profile", "food_analysis"}
           THEN ~C16_Same(t[k], s[k])
           ELSE t[k] # s[k]

\* C16: every step of a stage (an agent node or the human node) advances
\* the session: the history is longer after it, or a field read by a
\* routing guard has changed.
C16_EveryStepAdvances ==
    [][(node \in AgentNodes \cup {"human"}) =>
          C16_Advances(state, state')]_vars

\* The state in which trainer() produces the final recommendation.
C17_Ready(s) ==
    /\ s.profile_complete
    /\ TruthyDict(s.nutrition_profile)
    /\ TruthyDict(s.food_analysis)
    /\ ~TruthyStr(s.final_recommendation)

\* C17: whenever the trainer runs with the profile complete, the nutrition
\* profile and the food analysis present and no final recommendation, the
\* step sets final_recommendation and session_complete and the next node
\* is completion.
C17_RecommendationCompletes ==
    [][node = "trainer" /\ C17_Ready(state) =>
          /\ TruthyStr(state'.final_recommendation)
          /\ state'.session_complete
          /\ node' = "completion"]_vars

\* C18: whenever the next node is chosen with the profile complete, the
\* nutrition profile present and a meal-planning request as current input,
\* the session neither complete nor awaiting input, the next node is the
\* nutritionist, also right after the human node has read that input.
C18_MealPlanningToNutritionist ==
    [][(/\ node \in AgentNodes \cup {"human"}
        /\ state'.profile_complete
        /\ TruthyDict(state'.nutrition_profile)
        /\ is_meal_planning_request(Lower(state'.current_user_input))
        /\ ~state'.session_complete
        /\ ~state'.awaiting_user_input) =>
          node' = "nutritionist"]_vars

\* Profiles an answer to the profile prompt may carry, for C19: fields of
\* the wrong type, fields out of range, and valid fields beside them.
C19_Proposals ==
    { [ age |-> JStr(<<"a", "b", "c">>), sex |-> JStr(<<"F", "e", "m", "a", "l", "e">>) ],
      [ age |-> JInt(0), weight_kg |-> JInt(70) ],
      [ age |-> JInt(121), sex |-> JStr(<<"o", "t", "h", "e", "r">>), height_cm |-> JInt(79),
        weight_kg |-> JInt(401), activity_level |-> JStr(<<"l", "a", "z", "y">>),
        first_meal |-> JStr(<<"m", "a", "y", "b", "e">>) ],
      [ height_cm |-> JStr(<<"t", "a", "l", "l">>), weight_kg |-> JStr(<<"2", "0">>),
        first_meal |-> JBool(FALSE) ],
      [ age |-> JInt(120), height_cm |-> JInt(251), activity_level |-> JInt(3) ] }

\* The type and range checks as C19 states them.
C19_Valid(f, v) ==
    CASE f = "age" -> NumOk(v) /\ 1 <= NumVal(v) /\ NumVal(v) <= 120
      [] f = "sex" -> Lower(PyStr(v)) \in {<<"m", "a", "l", "e">>, <<"f", "e", "m", "a", "l", "e">>}
      [] f = "height_cm" -> NumOk(v) /\ 80 <= NumVal(v) /\ NumVal(v) <= 250
      [] f = "weight_kg" -> NumOk(v) /\ 20 <= NumVal(v) /\ NumVal(v) <= 400
      [] f = "activity_level" ->
             Lower(PyStr(v)) \in {<<"s", "e", "d", "e", "n", "t", "a", "r", "y">>, <<"l", "i", "g", "h", "t">>, <<"m", "o", "d", "e", "r", "a", "t", "e">>,
                                  <<"a", "c", "t", "i", "v", "e">>, <<"v", "e", "r", "y", "_", "a", "c", "t", "i", "v", "e">>}
      [] OTHER -> v.kind = "bool"

\* The value stored for a valid field.
C19_Stored(f, v) ==
    CASE f = "age" -> JInt(NumVal(v))
      [] f \in {"height_cm", "weight_kg"} -> JFloat(NumVal(v))
      [] f \in {"sex", "activity_level"} -> JStr(Lower(PyStr(v)))
      [] OTHER -> v

\* trainer() is at its profile-collection branch.
C19_Collecting(s) ==
    /\ ~C17_Ready(s)
    /\ ~(TruthyStr(s.food_request) /\ ~TruthyDict(s.food_analysis))
    /\ ~(s.profile_complete /\ TruthyDict(s.nutrition_profile)
         /\ ~TruthyStr(s.food_request))

\* C19: when the answer to the profile prompt carries a field that fails
\* its type or range check, the field is dropped and the stored value, or
\* its absence, is kept; the valid fields of the answer are merged.
C19_ValidationRejection ==
    (node = "trainer" /\ C19_Collecting(state)) =>
        \A p \in C19_Proposals :
            LET answer == LLMAnswer(("user_profile" :> p) @@ ("message" :> MsgLLM))
                old == state.user_profile
                new == Merge(state, trainer_node(state, answer)).user_profile
            IN  \A i \in DOMAIN required_fields :
                    LET f == required_fields[i]
                    IN  IF f \in DOMAIN p /\ C19_Valid(f, p[f])
                        THEN f \in DOMAIN new /\ new[f] = C19_Stored(f, p[f])
                        ELSE /\ f \in DOMAIN new <=> f \in DOMAIN old
                             /\ f \in DOMAIN old => new[f] = old[f]

\* An answer with an age out of range came after an answer with a valid
\* age, or before it: the profile holds the valid age and the other field.
C19_Witness ==
    /\ DOMAIN state.user_profile = {"age", "sex"}
    /\ state.user_profile["age"] = JInt(30)
    /\ state.user_profile["sex"] = JStr(<<"f", "e", "m", "a", "l", "e">>)
    /\ node = "trainer"
    /\ C19_Collecting(state)

\* C20, first half: when the generation call of a stage fails, the stage
\* returns its fallback update, with a message that is not empty.
C20_FallbackReturned ==
    /\ (node = "trainer" /\ trainer_calls_llm(state)) =>
           /\ ~trainer_raises(state, LLMFailure)
           /\ TruthyStr(Get(trainer(state, LLMFailure), "message", None))
    /\ (node = "nutritionist") =>
           TruthyStr(Get(nutritionist(state, LLMFailure), "message", None))
    /\ (node = "food_specialist" /\ TruthyStr(state.food_request)) =>
           TruthyStr(Get(food_specialist(state, LLMFailure), "message", None))

\* C20, second half: after the fallback update the executor goes to a next
\* node, not to the error exit.
C20_ExecutorContinues ==
    /\ (node = "trainer" /\ trainer_calls_llm(state)
        /\ ~trainer_raises(state, LLMFailure)) =>
           Follow(trainer_edges,
                  after_trainer(Merge(state, trainer_node(state, LLMFailure))))
               # "error"
    /\ (node = "nutritionist") =>
           Follow(nutritionist_edges,
                  after_nutritionist(
                      Merge(state, nutritionist_node(state, LLMFailure))))
               # "error"
    /\ (node = "food_specialist" /\ TruthyStr(state.food_request)) =>
           Follow(food_specialist_edges,
                  after_food_specialist(
                      Merge(state, food_specialist_node(state, LLMFailure))))
               # "error"

\* C20: a failure of the generation call of the trainer, the nutritionist
\* or the food specialist never reaches the executor: the stage returns a
\* fallback update with a non-empty message, and the executor goes on to a
\* next node instead of ending in an error.
C20_FailureContained == C20_FallbackReturned /\ C20_ExecutorContinues

\* The values of current_phase that State declares.
C21_Phases ==
    { "greeting", "profile_collection", "nutrition_analysis", "food_analysis",
      "recommendation", "complete" }

\* C21: in every reachable state current_phase is one of greeting,
\* profile_collection, nutrition_analysis, food_analysis, recommendation,
\* complete.
C21_PhaseInEnum == state.current_phase \in C21_Phases

\* The session was ended by a termination token.
C22_EndedByToken == IsIn(Lower(state.current_user_input), termination_tokens)

\* C22: when the session has ended the final summary has been printed if
\* and only if final_recommendation is not empty; a session that ended
\* without a recommendation was ended by a termination token, with
\* session_complete true; nothing is printed before the end.
C22_ReportIffRecommendation ==
    /\ node \in {"END", "error"} =>
           (summary.printed <=> TruthyStr(state.final_recommendation))
    /\ node = "END" =>
           /\ state.session_complete
           /\ summary.printed => summary.recommendation = state.final_recommendation
           /\ ~TruthyStr(state.final_recommendation) =>
                  C22_EndedByToken /\ summary = NoSummary
    /\ node \notin {"END", "error"} => summary = NoSummary

\* The user typed a termination token before any recommendation: the
\* session has ended complete, with no recommendation and no summary.
C22_Witness ==
    /\ node = "END"
    /\ C22_EndedByToken
    /\ state.session_complete
    /\ ~TruthyStr(state.final_recommendation)
    /\ ~summary.printed
    /\ state.messages # <<>>

\* Every field of s has its empty default.
C23_AllEmpty(s) ==
    /\ s.messages = <<>>
    /\ s.current_user_input = <<>>
    /\ ~s.awaiting_user_input
    /\ ~TruthyDict(s.user_profile)
    /\ ~s.profile_complete
    /\ ~TruthyDict(s.nutrition_profile)
    /\ ~TruthyDict(s.food_analysis)
    /\ ~TruthyStr(s.food_request)
    /\ ~s.awaiting_food_request
    /\ ~TruthyStr(s.final_recommendation)
    /\ ~s.session_complete

\* C23: a session starts from the all-empty state with the trainer as the
\* first node to run; the human node is entered only after an agent node
\* has run, and never reads input in the all-empty state.
C23_StartsAtTrainer ==
    /\ C23_AllEmpty(state) /\ node = "trainer"
    /\ [][(node' = "human") => node \in AgentNodes]_vars
    /\ [](node = "human" => ~C23_AllEmpty(state))

\* The human node has read a line after the trainer's first message.
C23_Witness ==
    /\ node = "trainer"
    /\ Len(state.messages) = 2
    /\ state.messages[1].role = "trainer"
    /\ state.messages[2].role = "user"

\* The quantity and the item phrase of a query as C24 states them: the
\* leading integer and the phrase after it, or 1 and the whole query.
C24_HasQuantity(s) ==
    /\ LeadingRun(s, TRUE) >= 1
    /\ LeadingRun(s, TRUE) < Len(s)
    /\ IsSpace(s[LeadingRun(s, TRUE) + 1])

C24_Quantity(s) ==
    IF C24_HasQuantity(s) THEN DigitsVal(SubSeq(s, 1, LeadingRun(s, TRUE))) ELSE 1

C24_Phrase(s) ==
    IF C24_HasQuantity(s) THEN Strip(SubSeq(s, LeadingRun(s, TRUE) + 1, Len(s)))
    ELSE s

\* The name and the listed aliases of an item of the catalogue.
C24_Labels(item) ==
    { Get(item, "food_entry_name", <<>>),
      Get(Get(item, "eaten", EmptyDict), "food_name_singular", <<>>),
      Get(Get(item, "eaten", EmptyDict), "food_name_plural", <<>>) } \ { <<>> }

C24_Matches(item, phrase) ==
    \E label \in C24_Labels(item) :
        \/ Lower(label) = Lower(phrase)
        \/ Contains(Lower(phrase), Lower(label))
        \/ Contains(Lower(label), Lower(phrase))

\* The first item in catalogue order that matches, 0 if there is none.
C24_First(items, phrase) ==
    IF \E i \in 1..Len(items) : C24_Matches(items[i], phrase)
    THEN CHOOSE i \in 1..Len(items) :
             /\ C24_Matches(items[i], phrase)
             /\ \A j \in 1..(i - 1) : ~C24_Matches(items[j], phrase)
    ELSE 0

\* The per-unit calories of an item, where the field is a number.
C24_PerUnit(item) ==
    Get(Get(Get(item, "eaten", EmptyDict), "total_nutritional_content", EmptyDict),
        "calories", JNull)

\* C24: calories_for parses the leading integer quantity and the item
\* phrase after it (quantity 1 without a leading integer), takes the first
\* item in catalogue order whose name or alias equals, contains or is
\* contained by the phrase, case-insensitively, and returns
\* round(quantity x per-unit calories) with the canonical name of that
\* item; with the banana at 89 alone in the catalogue, "3 banana" returns
\* (267, "banana").
C24_Lookup ==
    /\ (data = << Banana >> /\ text = <<"3", " ", "b", "a", "n", "a", "n", "a">>) =>
           returned = Returned(267, <<"b", "a", "n", "a", "n", "a">>)
    /\ returned.kind = "tuple" =>
           LET s == Strip(text)
               i == C24_First(data, C24_Phrase(s))
           IN  /\ i # 0
               /\ float_of(C24_PerUnit(data[i])).kind = "value"
               /\ returned.calories =
                      RoundHalfEven(
                          C24_Quantity(s) * float_of(C24_PerUnit(data[i])).tenths, 10)
               /\ "food_entry_name" \in DOMAIN data[i]
               /\ returned.name = data[i].food_entry_name

\* The part of C24 that holds: on queries made of an integer, blanks and a
\* phrase of word characters, blanks and hyphens, or without a leading
\* integer, and on catalogues whose items all have a name.
C24_LookupOnPlainQueries ==
    ((\A i \in 1..Len(data) : "food_entry_name" \in DOMAIN data[i])
     /\ (C24_HasQuantity(Strip(text)) => quantity_pattern_matches(Strip(text))))
        => C24_Lookup

\* C25: calories_for signals a miss as an empty returned, never as an
\* exception: it returns None when no item of the catalogue matches the
\* item phrase, and when the calories field of the matched item is absent
\* or is not a number.
C25_MissIsEmpty ==
    returned # NotCalled =>
        LET s == Strip(text)
            i == C24_First(data, C24_Phrase(s))
        IN  /\ returned.kind # "raised"
            /\ i = 0 => returned = ReturnedNone
            /\ (i # 0 /\ float_of(C24_PerUnit(data[i])).kind # "value") =>
                   returned = ReturnedNone

\* The misses C25 names, which do return None: no item matches, the
\* calories field is absent, null or a string that is no number.
C25_StatedMisses ==
    (returned # NotCalled
     /\ \A i \in 1..Len(data) :
            /\ "food_entry_name" \in DOMAIN data[i]
            /\ ~IsNoneDict(Get(data[i], "eaten", EmptyDict))
            /\ float_of(C24_PerUnit(data[i])).kind # "nan") =>
        LET s == Strip(text)
            i == find_match(data, IF quantity_pattern_matches(s)
                                  THEN item_group(s) ELSE s)
        IN  /\ returned.kind # "raised"
            /\ i = 0 => returned = ReturnedNone
            /\ (i # 0 /\ float_of(C24_PerUnit(data[i])).kind = "error") =>
                   returned = ReturnedNone

\* C26: whenever the trainer runs with the profile not complete it performs
\* profile collection, also when a food request is recorded: it does not
\* answer with the hand-off to the food specialist.
C26_IncompleteProfileCollects ==
    (node = "trainer" /\ ~state.profile_complete) =>
        /\ Get(trainer(state, LLMFailure), "message", None) # MsgHandOff
        /\ trainer(state, LLMFailure) =
               _handle_profile_collection(state, state.current_user_input,
                                          state.user_profile, LLMFailure)

\* C27: after the human node has read an input that is no termination
\* token, the next node is the trainer, whatever the guard chain gives for
\* the merged state.
C27_TrainerAfterInput ==
    [][(node = "human" /\ ~ReadsTermination) => node' = "trainer"]_vars

\* The human node has read an input and the trainer is next, where the
\* guard chain gives the nutritionist for the state.
C27_Witness ==
    /\ node = "trainer"
    /\ state.messages # <<>>
    /\ LastMessage.role = "user"
    /\ C4_GuardChain(state) = "nutritionist"

\* The trainer is about to ask for a food item.
C28_AsksForFood(s) ==
    /\ ~C17_Ready(s)
    /\ ~(TruthyStr(s.food_request) /\ ~TruthyDict(s.food_analysis))
    /\ s.profile_complete
    /\ TruthyDict(s.nutrition_profile)

\* C28: awaiting_food_request is false in every reachable state: the food
\* prompt of the trainer returns it true and the trainer node does not
\* merge it.
C28_NeverAwaitingFood ==
    /\ ~state.awaiting_food_request
    /\ (node = "trainer" /\ C28_AsksForFood(state)) =>
           /\ Get(trainer(state, LLMFailure), "awaiting_food_request", FALSE)
           /\ ~Merge(state, trainer_node(state, LLMFailure)).awaiting_food_request

\* The trainer has asked for a food item and the human node is next.
C28_Witness ==
    /\ node = "human"
    /\ state.messages # <<>>
    /\ LastMessage = Message("trainer", MsgAskFood)
    /\ ~state.awaiting_food_request
    /\ ~TruthyStr(state.food_request)

\* C29: the food specialist runs at most once in a session: it runs only
\* while food_analysis is empty, its step leaves food_analysis non-empty,
\* and a non-empty food_analysis stays non-empty and never has the food
\* specialist as the next node.
C29_FoodSpecialistOnce ==
    /\ [](node = "food_specialist" =>
              TruthyStr(state.food_request) /\ ~TruthyDict(state.food_analysis))
    /\ [][(node = "food_specialist") => TruthyDict(state'.food_analysis)]_vars
    /\ [][TruthyDict(state.food_analysis) =>
              /\ state'.food_analysis = state.food_analysis
              /\ node' # "food_specialist"]_vars

\* The food specialist has run and the session went on to the user.
C29_Witness ==
    /\ TruthyDict(state.food_analysis)
    /\ node = "human"
    /\ ~state.session_complete

\* C30: when every call of the language model fails, the stored profile
\* never changes and profile_complete stays false; the nutritionist and
\* the food specialist never run, nothing they or the recommendation
\* produce is stored, and the session ends only by a termination token.
C30_FallbackOnly ==
    /\ state.user_profile = EmptyDict
    /\ ~state.profile_complete
    /\ node \in {"trainer", "human", "completion", "END"}
    /\ ~TruthyDict(state.nutrition_profile)
    /\ ~TruthyDict(state.food_analysis)
    /\ ~TruthyStr(state.final_recommendation)
    /\ node \in {"completion", "END"} => C22_EndedByToken
    /\ state.session_complete => C22_EndedByToken

\* The fallback of the trainer has asked twice, the profile still empty,
\* and the user has ended the session with a termination token.
C30_Witness ==
    /\ node = "END"
    /\ C22_EndedByToken
    /\ Len(state.messages) = 3
    /\ state.messages[1] = Message("trainer", MsgGreeting)
    /\ state.messages[3] = Message("trainer", MsgGreeting)
    /\ state.user_profile = EmptyDict
====
